---------------------------- MODULE Spec2Model ----------------------------
(***************************************************************************)
(* Model of the MDF agreement extractor (src/app.py): header recovery,     *)
(* column-role resolution, amount normalisation, table record assembly     *)
(* and the upload handler.                                                 *)
(*                                                                         *)
(* A Python str is modelled as a sequence of one-character strings, so     *)
(* that stripping, substring search and the regular expressions of the     *)
(* source are computed character by character.  The character "NBSP"       *)
(* stands for U+00A0.                                                      *)
(***************************************************************************)
EXTENDS Integers, Sequences, FiniteSets, TLC

VARIABLES
    amt_x,          \* clean_amount: the raw cell handed to it
    amt_once,       \* clean_amount(x), or Unset
    amt_twice,      \* clean_amount(clean_amount(x)), or Unset
    pick_df,        \* _pick_column_indices: the table handed to it
    pick_out,       \* <<>>, or its result in a one-element sequence
    pc,             \* extract_table_records: where the call stands
    plan_period,    \* its plan_period argument
    seen,           \* the number of tables the loop has taken
    records,        \* its records list
    last_col_map,   \* its last_col_map: <<>> for None, <<map>> otherwise
    step,           \* history: the last iteration of the loop
    prev_step,      \* history: the iteration before it
    app_pc,         \* the page: no_file, uploaded, done or failed
    app_doc,        \* the uploaded document, in a one-element sequence
    tmp_files,      \* the temporary files that exist
    tmp_path,       \* tmp_path of the last script run, 0 before the first
    runs,           \* the script runs that wrote a temporary file
    result,         \* what extract returned, in a one-element sequence
    df_rows         \* the rows of the DataFrame df shown

amtVars == <<amt_x, amt_once, amt_twice>>

pickVars == <<pick_df, pick_out>>

tableVars == <<pc, plan_period, seen, records, last_col_map, step, prev_step>>

appVars == <<app_pc, app_doc, tmp_files, tmp_path, runs, result, df_rows>>

vars == <<amtVars, pickVars, tableVars, appVars>>

Unset == <<"unset">>

\* Op applied to the value of v, which is worked out once
Once(v, Op(_)) == CHOOSE y \in {Op(x) : x \in {v}} : TRUE

----------------------------------------------------------------------------
(* Characters and the str methods the source uses *)

Digits == {"0", "1", "2", "3", "4", "5", "6", "7", "8", "9"}

UpperCase == <<"A", "B", "C", "D", "E", "F", "G", "H", "I", "J", "K", "L", "M",
               "N", "O", "P", "Q", "R", "S", "T", "U", "V", "W", "X", "Y", "Z">>

LowerCase == <<"a", "b", "c", "d", "e", "f", "g", "h", "i", "j", "k", "l", "m",
               "n", "o", "p", "q", "r", "s", "t", "u", "v", "w", "x", "y", "z">>

Letters == {UpperCase[i] : i \in 1..Len(UpperCase)} \cup {LowerCase[i] : i \in 1..Len(LowerCase)}

\* what str.strip() strips and \s matches
WhiteSpace == {" ", "\t", "\n", "\r", "NBSP"}

\* \w, as \b sees it
WordChars == Letters \cup Digits \cup {"_"}

LowerChar(c) ==
    IF \E i \in 1..Len(UpperCase) : UpperCase[i] = c
    THEN LowerCase[CHOOSE i \in 1..Len(UpperCase) : UpperCase[i] = c]
    ELSE c

lower(s) == Once(s, LAMBDA t : [i \in 1..Len(t) |-> LowerChar(t[i])])

\* index of the last character of the maximal run of characters of cs that
\* starts at i; i - 1 when s[i] is not in cs
RECURSIVE run_end(_, _, _)
run_end(s, cs, i) ==
    IF i <= Len(s) /\ s[i] \in cs THEN run_end(s, cs, i + 1) ELSE i - 1

\* index of the first character of the maximal run of characters of cs that
\* ends at i; i + 1 when s[i] is not in cs
RECURSIVE run_start(_, _, _)
run_start(s, cs, i) ==
    IF i >= 1 /\ s[i] \in cs THEN run_start(s, cs, i - 1) ELSE i + 1

\* str.strip(): without the leading and the trailing whitespace
strip(s) ==
    Once(s, LAMBDA t :
        Once(run_end(t, WhiteSpace, 1) + 1, LAMBDA first :
            IF first > Len(t) THEN <<>>
            ELSE SubSeq(t, first, run_start(t, WhiteSpace, Len(t)) - 1)))

\* s.replace(old, new) for one-character old and new
replace_char(s, old, new) ==
    Once(s, LAMBDA t : [i \in 1..Len(t) |-> IF t[i] = old THEN new ELSE t[i]])

\* s.replace(c, "") for every c of cs
remove_chars(s, cs) == SelectSeq(s, LAMBDA c : c \notin cs)

\* sub occurs in s at position i (1-based)
occurs_at(s, sub, i) ==
    /\ i >= 1
    /\ i + Len(sub) - 1 <= Len(s)
    /\ \A k \in 1..Len(sub) : s[i + k - 1] = sub[k]

\* sub in s
contains(s, sub) == \E t \in {s} : \E i \in 1..(Len(t) + 1) : occurs_at(t, sub, i)

startswith(s, pre) == \E t \in {s} : occurs_at(t, pre, 1)

endswith(s, suf) == \E t \in {s} : occurs_at(t, suf, Len(t) - Len(suf) + 1)

\* re.sub(r"\s+", " ", s), from position i on
RECURSIVE collapse_ws_from(_, _)
collapse_ws_from(s, i) ==
    IF i > Len(s) THEN <<>>
    ELSE IF s[i] \in WhiteSpace
         THEN <<" ">> \o collapse_ws_from(s, run_end(s, WhiteSpace, i) + 1)
         ELSE <<s[i]>> \o collapse_ws_from(s, i + 1)

collapse_ws(s) == Once(s, LAMBDA t : collapse_ws_from(t, 1))

----------------------------------------------------------------------------
(* clean_amount *)

\* (?i)\bUSD\b matches at i
usd_at(s, i) ==
    /\ i + 2 <= Len(s)
    /\ <<LowerChar(s[i]), LowerChar(s[i + 1]), LowerChar(s[i + 2])>> = <<"u", "s", "d">>
    /\ (i = 1 \/ s[i - 1] \notin WordChars)
    /\ (i + 2 = Len(s) \/ s[i + 3] \notin WordChars)

\* re.sub(r"(?i)\bUSD\b", "", s), from position i on
RECURSIVE sub_usd_from(_, _)
sub_usd_from(s, i) ==
    IF i > Len(s) THEN <<>>
    ELSE IF usd_at(s, i) THEN sub_usd_from(s, i + 3)
         ELSE <<s[i]>> \o sub_usd_from(s, i + 1)

sub_usd(s) == Once(s, LAMBDA t : sub_usd_from(t, 1))

\* -?\d+(?:\.\d+)? matches at i
number_at(s, i) ==
    \/ s[i] \in Digits
    \/ s[i] = "-" /\ i < Len(s) /\ s[i + 1] \in Digits

\* index of the last character of the match of -?\d+(?:\.\d+)? at i
number_end(s, i) ==
    LET first == IF s[i] = "-" THEN i + 1 ELSE i
        int_end == run_end(s, Digits, first)
    IN  IF int_end + 2 <= Len(s) /\ s[int_end + 1] = "." /\ s[int_end + 2] \in Digits
        THEN run_end(s, Digits, int_end + 2)
        ELSE int_end

DigitValue(c) == CHOOSE n \in 0..9 : <<"0", "1", "2", "3", "4", "5", "6", "7", "8", "9">>[n + 1] = c

\* int() of the digits s[i..j]
RECURSIVE parse_nat(_, _, _)
parse_nat(s, i, j) ==
    IF j < i THEN 0 ELSE 10 * parse_nat(s, i, j - 1) + DigitValue(s[j])

\* str() of a natural number
RECURSIVE nat_str(_)
nat_str(n) ==
    IF n < 10 THEN <<<<"0", "1", "2", "3", "4", "5", "6", "7", "8", "9">>[n + 1]>>
    ELSE nat_str(n \div 10) \o nat_str(n % 10)

\* re.match(r"^-?\d+\.0+$", num), for num a match of -?\d+(?:\.\d+)?
integer_valued(num) ==
    \E t \in {num} : \E p \in 1..Len(t) :
        /\ t[p] = "."
        /\ \A k \in (p + 1)..Len(t) : t[k] = "0"

\* str(int(float(num))) for an integer-valued num: the sign is dropped from
\* a zero and leading zeros go
collapse_integer(num) ==
    Once(parse_nat(num, IF num[1] = "-" THEN 2 ELSE 1,
                   (CHOOSE q \in 1..Len(num) : num[q] = ".") - 1),
         LAMBDA n : IF num[1] = "-" /\ n > 0 THEN <<"-">> \o nat_str(n) ELSE nat_str(n))

\* lines 86-89: the parenthesised-negative test and the text inside
paren_wrapped(s) == startswith(s, <<"(">>) /\ endswith(s, <<")">>)

\* apply_neg without the test for a minus that is already there
apply_neg_unguarded(neg, num) == IF neg THEN <<"-">> \o num ELSE num

\* lines 96-97
apply_neg(neg, num) == IF neg /\ num[1] # "-" THEN <<"-">> \o num ELSE num

\* collapse that leaves the fraction in place
collapse_never(num) == num

\* lines 98-99
collapse(num) == Once(num, LAMBDA t : IF integer_valued(t) THEN collapse_integer(t) ELSE t)

\* lines 81-84
strip_currency(x) ==
    strip(remove_chars(sub_usd(replace_char(strip(x), "NBSP", " ")), {"$", ","}))

\* lines 91-95: re.search(r"-?\d+(?:\.\d+)?", s), <<>> when there is no match
search_number(s) ==
    Once({i \in 1..Len(s) : number_at(s, i)}, LAMBDA starts :
        IF starts = {} THEN <<>>
        ELSE Once(CHOOSE j \in starts : \A k \in starts : j <= k, LAMBDA i :
                SubSeq(s, i, number_end(s, i))))

\* lines 86-100, for s the cell without its currency marks
clean_stripped(s) ==
    Once(paren_wrapped(s), LAMBDA neg :
        Once(search_number(IF neg THEN strip(SubSeq(s, 2, Len(s) - 1)) ELSE s), LAMBDA num :
            IF num = <<>> THEN <<>> ELSE collapse(apply_neg(neg, num))))

clean_amount(x) == Once(strip_currency(x), LAMBDA s : clean_stripped(s))

----------------------------------------------------------------------------
(* HEADER_PATTERNS, _first_match, extract_headers *)

(***************************************************************************)
(* Every pattern of HEADER_PATTERNS has the shape                          *)
(*     \b?  W1 \s* W2 \s* ... Wn \s* (?:Opt)? \s* [:\-]?  \s* (class+)     *)
(* and is written as a record: boundary (the leading \b), words (W1..Wn in *)
(* lower case), optional (Opt in lower case, or <<>>), sep_optional (the   *)
(* separator is [:\-]?), digits (the group is [0-9\-]+, otherwise          *)
(* [^\n\r]+).  All of them are compiled with re.IGNORECASE.                *)
(***************************************************************************)
Pattern(boundary, words, optional, sep_optional, digits) ==
    [boundary |-> boundary, words |-> words, optional |-> optional,
     sep_optional |-> sep_optional, digits |-> digits]

HEADER_PATTERNS ==
    [plan_period |->
        << Pattern(FALSE, <<<<"p", "l", "a", "n">>, <<"p", "e", "r", "i", "o", "d">>>>, <<>>, FALSE, FALSE),
           Pattern(FALSE, <<<<"p", "e", "r", "i", "o", "d">>>>, <<>>, FALSE, FALSE),
           Pattern(FALSE, <<<<"p", "l", "a", "n">>, <<"w", "i", "n", "d", "o", "w">>>>, <<>>, FALSE, FALSE) >>,
     po_number |->
        << Pattern(TRUE, <<<<"p", "o">>, <<"n", "u", "m", "b", "e", "r">>>>, <<>>, FALSE, TRUE),
           Pattern(TRUE, <<<<"p", "o">>, <<"#">>>>, <<>>, TRUE, TRUE),
           Pattern(TRUE, <<<<"p", "u", "r", "c", "h", "a", "s", "e">>, <<"o", "r", "d", "e", "r">>>>, <<"n", "u", "m", "b", "e", "r">>, FALSE, TRUE),
           Pattern(TRUE, <<<<"p", "o">>>>, <<>>, FALSE, TRUE) >>,
     partner |->
        << Pattern(FALSE, <<<<"p", "a", "r", "t", "n", "e", "r">>, <<"l", "e", "g", "a", "l">>, <<"n", "a", "m", "e">>>>, <<>>, FALSE, FALSE),
           Pattern(FALSE, <<<<"p", "a", "r", "t", "n", "e", "r">>, <<"n", "a", "m", "e">>>>, <<>>, FALSE, FALSE),
           Pattern(FALSE, <<<<"p", "a", "r", "t", "n", "e", "r">>>>, <<>>, FALSE, FALSE),
           Pattern(FALSE, <<<<"r", "e", "s", "e", "l", "l", "e", "r">>>>, <<>>, FALSE, FALSE) >>]

\* the first pages whose text extract_headers reads
HeaderPages == 2

NoGroup == [found |-> FALSE, group |-> <<>>]

\* the characters a group may hold: [0-9\-] or [^\n\r], as a test on c
in_group_class(p, c) == IF p.digits THEN c \in Digits \cup {"-"} ELSE c \notin {"\n", "\r"}

\* index of the last character of the run of group characters that starts at i
RECURSIVE group_end(_, _, _)
group_end(p, t, i) ==
    IF i <= Len(t) /\ in_group_class(p, t[i]) THEN group_end(p, t, i + 1) ELSE i - 1

\* the position after \s* from pos
skip_ws(t, pos) == run_end(t, WhiteSpace, pos) + 1

\* the position after W_k \s* ... W_n \s* from pos, 0 when a word does not
\* match; tl is the text in lower case
RECURSIVE words_end(_, _, _, _)
words_end(tl, pos, words, k) ==
    IF k > Len(words) THEN pos
    ELSE IF occurs_at(tl, words[k], pos)
         THEN words_end(tl, skip_ws(tl, pos + Len(words[k])), words, k + 1)
         ELSE 0

\* \s* (class+) from pos: \s* is greedy and gives back what the group needs,
\* so the group starts at the last position of pos..skip_ws(t, pos) that
\* holds a group character
group_from(p, t, pos) ==
    Once({c \in pos..skip_ws(t, pos) : c <= Len(t) /\ in_group_class(p, t[c])}, LAMBDA cands :
        IF cands = {} THEN NoGroup
        ELSE Once(CHOOSE c \in cands : \A o \in cands : o <= c, LAMBDA c :
                [found |-> TRUE, group |-> SubSeq(t, c, group_end(p, t, c))]))

\* [:\-]? \s* (class+) or [:\-] \s* (class+) from pos: the separator is taken
\* when it is there, and left out only when it is optional and taking it finds
\* no group
separator_from(p, t, pos) ==
    Once(IF pos <= Len(t) /\ t[pos] \in {":", "-"} THEN group_from(p, t, pos + 1) ELSE NoGroup,
         LAMBDA taken :
            IF taken.found \/ ~p.sep_optional THEN taken ELSE group_from(p, t, pos))

\* (?:Opt)? \s* ... from pos
optional_from(p, t, tl, pos) ==
    IF p.optional # <<>> /\ occurs_at(tl, p.optional, pos)
    THEN Once(separator_from(p, t, skip_ws(t, pos + Len(p.optional))), LAMBDA taken :
            IF taken.found THEN taken ELSE separator_from(p, t, pos))
    ELSE separator_from(p, t, pos)

\* the pattern matches at i: its group
match_at(p, t, tl, i) ==
    IF p.boundary /\ i > 1 /\ t[i - 1] \in WordChars THEN NoGroup
    ELSE Once(words_end(tl, i, p.words, 1), LAMBDA pos :
            IF pos = 0 THEN NoGroup ELSE optional_from(p, t, tl, pos))

\* p.search(text): the match at the leftmost position that has one
search_from(p, t, tl) ==
    Once({i \in 1..Len(t) : match_at(p, t, tl, i).found}, LAMBDA starts :
        IF starts = {} THEN NoGroup
        ELSE match_at(p, t, tl, CHOOSE i \in starts : \A o \in starts : i <= o))

search(p, text) == Once(text, LAMBDA t : Once(lower(t), LAMBDA tl : search_from(p, t, tl)))

\* lines 39-44, from pattern k on
RECURSIVE first_match_from(_, _, _)
first_match_from(text, pats, k) ==
    IF k > Len(pats) THEN <<>>
    ELSE Once(search(pats[k], text), LAMBDA m :
            IF m.found THEN strip(collapse_ws(m.group))
            ELSE first_match_from(text, pats, k + 1))

first_match(text, pats) == first_match_from(text, pats, 1)

\* lines 47-50: the text of the first pages, each followed by a newline
RECURSIVE pages_text(_, _)
pages_text(pages, k) ==
    IF k > Len(pages) \/ k > HeaderPages THEN <<>>
    ELSE pages[k] \o <<"\n">> \o pages_text(pages, k + 1)

\* lines 51-55: the dict extract_headers returns, by its keys
extract_headers(pages) ==
    Once(pages_text(pages, 1), LAMBDA text :
        ("Partner" :> first_match(text, HEADER_PATTERNS.partner))
        @@ ("PO Number" :> first_match(text, HEADER_PATTERNS.po_number))
        @@ ("Plan Period" :> first_match(text, HEADER_PATTERNS.plan_period)))

\* dict.get(key, default)
dict_get(dict, key, default) == IF key \in DOMAIN dict THEN dict[key] ELSE default

----------------------------------------------------------------------------
(* _pick_column_indices *)

\* Python's None, where a column index is expected
None == -1

COL_SYNONYMS ==
    [activity |-> {<<"a", "c", "t", "i", "v", "i", "t", "y">>, <<"a", "c", "t", "i", "v", "i", "t", "i", "y">>, <<"a", "c", "t", "i", " ", "v", "i", "t", "y">>, <<"a", "c", "t", "v", "i", "t", "y">>},
     description |-> {<<"d", "e", "s", "c", "r", "i", "p", "t", "i", "o", "n">>, <<"d", "e", "s", "c", "r">>, <<"d", "e", "s", "r", "i", "p", "t", "i", "o", "n">>},
     amount |-> {<<"u", "p", " ", "t", "o", " ", "a", "m", "o", "u", "n", "t", " ", "(", "u", "s", "d", ")">>, <<"u", "p", " ", "t", "o", " ", "a", "m", "o", "u", "n", "t">>, <<"a", "m", "o", "u", "n", "t", " ", "(", "u", "s", "d", ")">>, <<"a", "m", "o", "u", "n", "t">>,
                 <<"b", "u", "d", "g", "e", "t", " ", "(", "u", "s", "d", ")">>, <<"b", "u", "d", "g", "e", "t">>, <<"t", "o", "t", "a", "l", " ", "a", "m", "o", "u", "n", "t", " ", "(", "u", "s", "d", ")">>, <<"m", "a", "x", " ", "a", "m", "o", "u", "n", "t", " ", "(", "u", "s", "d", ")">>}]

\* the rows the search for the header row looks at
HeaderScanRows == 20

normalize_header(text) == lower(strip(collapse_ws(text)))

\* " ".join([str(x or "").strip() for x in row]), from cell i on
RECURSIVE join_cells(_, _)
join_cells(row, i) ==
    IF i > Len(row) THEN <<>>
    ELSE IF i = Len(row) THEN strip(row[i])
         ELSE strip(row[i]) \o <<" ">> \o join_cells(row, i + 1)

\* line 107: both fragments occur in the joined row, whatever the case
is_header_row(row) ==
    \E joined \in {lower(join_cells(row, 1))} :
        contains(joined, <<"a", "c", "t", "i", "v">>) /\ contains(joined, <<"d", "e", "s", "c", "r">>)

Min(S) == CHOOSE x \in S : \A y \in S : x <= y

\* lines 104-109, 0-based
header_row_idx(df) ==
    LET n == IF Len(df) < HeaderScanRows THEN Len(df) ELSE HeaderScanRows
        found == {i \in 0..(n - 1) : is_header_row(df[i + 1])}
    IN  IF found = {} THEN 0 ELSE Min(found)

\* lines 115-120: the first column whose header holds a synonym of the role
role_index(header, role) ==
    LET hits == {idx \in 0..(Len(header) - 1) :
                    \E s \in COL_SYNONYMS[role] : contains(normalize_header(header[idx + 1]), s)}
    IN  IF hits = {} THEN None ELSE Min(hits)

\* \d{k} at i
digits_at(s, i, k) == i + k - 1 <= Len(s) /\ \A q \in i..(i + k - 1) : s[q] \in Digits

\* \$\d{1,3}(?:,\d{3})+(?:\.\d+)? is found in s; the optional fraction does not
\* change whether it is
currency_like(s) ==
    \E i \in 1..Len(s) : \E k \in 1..3 :
        /\ s[i] = "$"
        /\ digits_at(s, i + 1, k)
        /\ i + k + 1 <= Len(s)
        /\ s[i + k + 1] = ","
        /\ digits_at(s, i + k + 2, 3)

\* line 127: the data cells of column j that look like currency
score(data, j) == Cardinality({r \in 1..Len(data) : currency_like(data[r][j + 1])})

\* the candidate a tie goes to when the lowest column wins
best_candidate_first_seen(cand_scores) ==
    CHOOSE c \in cand_scores :
        \A o \in cand_scores : o[1] < c[1] \/ (o[1] = c[1] /\ o[2] >= c[2])

\* lines 129-130: cand_scores.sort(reverse=True)[0], the greatest (score, j)
best_candidate(cand_scores) ==
    CHOOSE c \in cand_scores :
        \A o \in cand_scores : o[1] < c[1] \/ (o[1] = c[1] /\ o[2] <= c[2])

\* lines 123-131
amount_fallback(header, data) ==
    Once({<<score(data, j), j>> : j \in 0..(Len(header) - 1)}, LAMBDA cand_scores :
        IF Len(data) > 0 /\ cand_scores # {}
        THEN Once(best_candidate(cand_scores), LAMBDA best :
                IF best[1] > 0 THEN best[2] ELSE None)
        ELSE None)

\* the rows of df from row i (0-based) on
rows_from(df, i) == SubSeq(df, i + 1, Len(df))

\* lines 111-132, for h the header row: data and col_map; start is the 0-based
\* row of df that data begins at
pick_below_header(df, h) ==
    Once(<<[c \in 1..Len(df[h + 1]) |-> normalize_header(df[h + 1][c])], rows_from(df, h + 1)>>,
         LAMBDA hd :
            Once(role_index(hd[1], "amount"), LAMBDA by_header :
                [data |-> hd[2],
                 start |-> h + 1,
                 col_map |-> [activity |-> role_index(hd[1], "activity"),
                              description |-> role_index(hd[1], "description"),
                              amount |-> IF by_header = None
                                         THEN amount_fallback(hd[1], hd[2])
                                         ELSE by_header]]))

pick_column_indices(df) == Once(header_row_idx(df), LAMBDA h : pick_below_header(df, h))

----------------------------------------------------------------------------
(* extract_table_records *)

\* line 159: a table needs this many columns
MinColumns == 2

\* line 74: the default length of truncate
TruncateLength == 100

truncate(text) ==
    Once(text, LAMBDA t :
        strip(SubSeq(t, 1, IF Len(t) < TruncateLength THEN Len(t) ELSE TruncateLength)))

\* line 159: df.empty or df.shape[1] < 2
table_skipped(df) == IF df = <<>> THEN TRUE ELSE Len(df[1]) < MinColumns

\* row.iloc[i] if i is not None and i < len(row) else ""
cell_at(row, i) == IF i # None /\ i < Len(row) THEN row[i + 1] ELSE <<>>

\* the blank-row test on the cells as they are, untrimmed
blank_row_untrimmed(row, a, d) == cell_at(row, a) = <<>> /\ cell_at(row, d) = <<>>

\* lines 175-177
blank_row(row, a, d) == strip(cell_at(row, a)) = <<>> /\ strip(cell_at(row, d)) = <<>>

\* lines 180-181: a header row repeated among the data
header_like(row, a, d) ==
    \E joined \in {lower(strip(strip(cell_at(row, a)) \o <<" ">> \o strip(cell_at(row, d))))} :
        startswith(joined, <<"a", "c", "t", "i", "v", "i", "t", "y">>) \/ startswith(joined, <<"d", "e", "s", "c", "r", "i", "p", "t", "i", "o", "n">>)

\* lines 184-186
make_record(row, a, d, m, period) ==
    [Description |-> truncate(strip(cell_at(row, a))) \o <<" ", "-", " ">>
                     \o truncate(strip(cell_at(row, d))) \o <<" ", "-", " ">> \o period,
     Amount |-> clean_amount(cell_at(row, m))]

\* line 166: the table is read as a continuation of the one before
continues(col_map, lcm) ==
    (col_map.activity = None \/ col_map.description = None) /\ lcm # <<>>

\* the continuation that keeps the data rows of _pick_column_indices
resolve_keeping_data(p, lcm) ==
    IF continues(p.col_map, lcm)
    THEN [a |-> lcm[1].activity, d |-> lcm[1].description, m |-> lcm[1].amount,
          start |-> p.start, continued |-> TRUE]
    ELSE [a |-> p.col_map.activity, d |-> p.col_map.description, m |-> p.col_map.amount,
          start |-> p.start, continued |-> FALSE]

\* lines 163-168, for p the result of _pick_column_indices: the roles and the
\* first data row (0-based) of the table, its own or, for a continuation,
\* those of last_col_map and row 0
resolve(p, lcm) ==
    IF continues(p.col_map, lcm)
    THEN [a |-> lcm[1].activity, d |-> lcm[1].description, m |-> lcm[1].amount,
          start |-> 0, continued |-> TRUE]
    ELSE [a |-> p.col_map.activity, d |-> p.col_map.description, m |-> p.col_map.amount,
          start |-> p.start, continued |-> FALSE]

\* lines 174-182: the rows of df (0-based), from row i on, that give a record
RECURSIVE kept_rows(_, _, _, _)
kept_rows(df, i, a, d) ==
    IF i >= Len(df) THEN <<>>
    ELSE (IF blank_row(df[i + 1], a, d) \/ header_like(df[i + 1], a, d) THEN <<>> ELSE <<i>>)
         \o kept_rows(df, i + 1, a, d)

\* a skipped table that forgets the map
map_after_skip_cleared(lcm) == <<>>

\* line 160: continue leaves last_col_map as it is
map_after_skip(lcm) == lcm

\* a dropped table that passes its partial map on
map_after_drop_kept(r) == <<[activity |-> r.a, description |-> r.d, amount |-> r.m]>>

\* line 171
map_after_drop(r) == <<>>

\* line 188
map_after_table(r) == <<[activity |-> r.a, description |-> r.d, amount |-> r.m]>>

NoRoles == [a |-> None, d |-> None, m |-> None, start |-> 0, continued |-> FALSE]

\* lines 170-188, for r the roles: the table is dropped, or its rows are read
iteration_with_roles(df, r, lcm, period) ==
    IF r.a = None \/ r.d = None
    THEN [branch |-> "dropped", roles |-> r, rows |-> <<>>, new |-> <<>>,
          map |-> map_after_drop(r)]
    ELSE Once(kept_rows(df, r.start, r.a, r.d), LAMBDA rows :
            [branch |-> IF r.continued THEN "continued" ELSE "own",
             roles |-> r,
             rows |-> rows,
             new |-> [k \in 1..Len(rows) |-> make_record(df[rows[k] + 1], r.a, r.d, r.m, period)],
             map |-> map_after_table(r)])

Title3 == <<<<"M", "D", "F", " ", "P", "l", "a", "n", " ", "2", "0", "2", "5">>, <<>>, <<>>>>
Header3 == <<<<"A", "c", "t", "i", "v", "i", "t", "y">>, <<"D", "e", "s", "c", "r", "i", "p", "t", "i", "o", "n">>, <<"A", "m", "o", "u", "n", "t">>>>
HeaderUsd3 == <<<<"A", "C", "T", "I", "V", "I", "T", "Y", " ">>, <<"D", "e", "s", "c", "r", ".">>, <<"U", "p", " ", "T", "o", " ", " ", "A", "m", "o", "u", "n", "t", " ", "(", "U", "S", "D", ")">>>>
HeaderTypo3 == <<<<"A", "c", "t", "v", "i", "t", "y">>, <<"D", "e", "s", "r", "i", "p", "t", "i", "o", "n">>, <<"B", "u", "d", "g", "e", "t">>>>
HeaderReordered3 == <<<<"B", "u", "d", "g", "e", "t">>, <<"A", "c", "t", "i", "v", "i", "t", "y">>, <<"D", "e", "s", "c", "r", "i", "p", "t", "i", "o", "n">>>>
HeaderBroken3 == <<<<"A", "c", "t", "i", "v", "i", "t", "y">>, <<"N", "o", "t", "e", "s">>, <<"A", "m", "o", "u", "n", "t">>>>
HeaderCost3 == <<<<"A", "c", "t", "i", "v", "i", "t", "y">>, <<"D", "e", "s", "c", "r", "i", "p", "t", "i", "o", "n">>, <<"C", "o", "s", "t">>>>
RowTraining3 == <<<<"T", "r", "a", "i", "n", "i", "n", "g">>, <<"R", "e", "g", "i", "o", "n", "a", "l", " ", "t", "r", "a", "i", "n", "i", "n", "g">>, <<"$", "1", ",", "0", "0", "0", ".", "0", "0">>>>
RowWebinar3 == <<<<"W", "e", "b", "i", "n", "a", "r">>, <<>>, <<"(", "5", "0", "0", ")">>>>
RowBlank3 == <<<<>>, <<" ">>, <<"$", "3", "0", "0">>>>
Header2 == <<<<"A", "c", "t", "i", "v", "i", "t", "y">>, <<"D", "e", "s", "c", "r", "i", "p", "t", "i", "o", "n">>>>
RowTraining2 == <<<<"T", "r", "a", "i", "n", "i", "n", "g">>, <<"R", "e", "g", "i", "o", "n", "a", "l", " ", "t", "r", "a", "i", "n", "i", "n", "g">>>>
RowWebinar2 == <<<<"W", "e", "b", "i", "n", "a", "r">>, <<"O", "n", "l", "i", "n", "e">>>>
RowOnly1 == <<<<"T", "r", "a", "i", "n", "i", "n", "g">>>>

\* what a table opens with: nothing, a header row, a title row and a header
\* row, a header with the roles in another order, a header without a
\* description column; HeaderCost3 names no amount column, HeaderTypo3 is
\* spelled as the synonyms of lines 60-61 are
HeaderParts3 ==
    { <<>>, <<Header3>>, <<Title3, HeaderUsd3>>, <<HeaderReordered3>>, <<HeaderBroken3>> }

DataParts3 == { <<RowTraining3>>, <<RowWebinar3, RowBlank3>> }

\* the tables the engine may hand over: three-column tables with and without
\* header and data rows, a header repeated among the data, tables of two
\* columns and of one, the empty table
TablePool ==
    {h \o d : h \in HeaderParts3, d \in DataParts3}
        \cup { <<Header3>>, <<Header3, Header3, RowTraining3>>, <<HeaderCost3, RowTraining3>>,
               <<HeaderTypo3, RowWebinar3>>, <<>>,
               <<Header2, RowTraining2>>, <<RowWebinar2>>, <<RowOnly1>> }

\* _pick_column_indices of every table of the pool, worked out once
PickedPool == {<<df, pick_column_indices(df)>> : df \in {t \in TablePool : ~table_skipped(t)}}

\* _pick_column_indices(df), looked up when df is a table of the pool
picked(df) ==
    IF \E e \in PickedPool : e[1] = df
    THEN (CHOOSE e \in PickedPool : e[1] = df)[2]
    ELSE pick_column_indices(df)

\* lines 158-188, one pass of the loop over table df: the branch taken, the
\* roles used, the rows (0-based) that gave a record, the records appended
\* and the value last_col_map is left with
table_iteration(df, lcm, period) ==
    IF table_skipped(df)
    THEN [branch |-> "skipped", roles |-> NoRoles, rows |-> <<>>, new |-> <<>>,
          map |-> map_after_skip(lcm)]
    ELSE Once(resolve(picked(df), lcm), LAMBDA r :
            iteration_with_roles(df, r, lcm, period))

\* lines 154-190 over tables k..: the records, from acc = (records, last_col_map)
RECURSIVE loop_from(_, _, _, _)
loop_from(tables, k, acc, period) ==
    IF k > Len(tables) THEN acc[1]
    ELSE Once(table_iteration(tables[k], acc[2], period), LAMBDA it :
            loop_from(tables, k + 1, <<acc[1] \o it.new, it.map>>, period))

\* lines 134-190; engine is what camelot.read_pdf does: it raises, or it answers
\* with its tables (none included)
extract_table_records(engine, plan) ==
    loop_from(IF engine.raises THEN <<>> ELSE engine.tables, 1, <<<<>>, <<>>>>, plan)

\* lines 192-198: po, period, partner, rows
extract(doc) ==
    Once(extract_headers(doc.pages), LAMBDA headers :
        Once(dict_get(headers, "plan_period", <<>>), LAMBDA period :
            [po |-> dict_get(headers, "po_number", <<>>),
             period |-> period,
             partner |-> dict_get(headers, "partner", <<>>),
             rows |-> extract_table_records(doc.engine, period)]))

\* lines 238-245: the rows of the DataFrame
output_rows(res) ==
    [k \in 1..Len(res.rows) |->
        ("PO Number" :> res.po) @@ ("Partner" :> res.partner)
        @@ ("Description" :> res.rows[k].Description) @@ ("Amount" :> res.rows[k].Amount)]

----------------------------------------------------------------------------
(* The parts of the state a specification leaves alone *)

AmountIdle == amt_x = <<>> /\ amt_once = Unset /\ amt_twice = Unset

PickIdle == pick_df = <<>> /\ pick_out = <<>>

NoStep == [branch |-> "none", df |-> <<>>, roles |-> NoRoles, rows |-> <<>>,
           before |-> <<>>, base |-> 0]

AppIdle ==
    /\ app_pc = "idle"
    /\ app_doc = <<>>
    /\ tmp_files = {}
    /\ tmp_path = 0
    /\ runs = 0
    /\ result = <<>>
    /\ df_rows = <<>>

TablesIdle ==
    /\ pc = "idle"
    /\ plan_period = <<>>
    /\ seen = 0
    /\ records = <<>>
    /\ last_col_map = <<>>
    /\ step = NoStep
    /\ prev_step = NoStep

----------------------------------------------------------------------------
(* Specification of extract_table_records, table by table *)

\* the tables of one document
MaxTables == 3

PlanPeriod == <<"Q", "1", " ", "2", "0", "2", "5">>

InitTables ==
    /\ AmountIdle
    /\ PickIdle
    /\ AppIdle
    /\ pc = "read_pdf"
    /\ plan_period = PlanPeriod
    /\ seen = 0
    /\ records = <<>>
    /\ last_col_map = <<>>
    /\ step = NoStep
    /\ prev_step = NoStep

\* lines 141-150: camelot.read_pdf found tables
ReadPdfTables ==
    /\ pc = "read_pdf"
    /\ pc' = "loop"
    /\ UNCHANGED <<plan_period, seen, records, last_col_map, step, prev_step, amtVars, pickVars, appVars>>

\* lines 149-150: t.n = 0, tables stays []
ReadPdfNoTables ==
    /\ pc = "read_pdf"
    /\ pc' = "returned"
    /\ UNCHANGED <<plan_period, seen, records, last_col_map, step, prev_step, amtVars, pickVars, appVars>>

\* lines 151-152: camelot.read_pdf raised, tables stays []
ReadPdfRaises ==
    /\ pc = "read_pdf"
    /\ pc' = "returned_after_raise"
    /\ UNCHANGED <<plan_period, seen, records, last_col_map, step, prev_step, amtVars, pickVars, appVars>>

\* lines 158-188: one pass of the loop, over table df; it is what the pass does
Iterate(df, it) ==
    /\ seen < MaxTables
    /\ records' = records \o it.new
    /\ last_col_map' = it.map
    /\ step' = [branch |-> it.branch, df |-> df, roles |-> it.roles, rows |-> it.rows,
                before |-> last_col_map, base |-> Len(records)]
    /\ seen' = seen + 1
    /\ prev_step' = step
    /\ UNCHANGED <<pc, plan_period, amtVars, pickVars, appVars>>

\* lines 159-160
SkipTable(df) ==
    /\ pc = "loop"
    /\ table_skipped(df)
    /\ \E it \in {table_iteration(df, last_col_map, plan_period)} : Iterate(df, it)

\* lines 162-172: neither the table nor last_col_map gives both roles
DropTable(df) ==
    /\ pc = "loop"
    /\ ~table_skipped(df)
    /\ \E r \in {resolve(picked(df), last_col_map)} :
        /\ ~(r.a # None /\ r.d # None)
        /\ \E it \in {iteration_with_roles(df, r, last_col_map, plan_period)} : Iterate(df, it)

\* lines 162-188 for a table with its own header
ReadTable(df) ==
    /\ pc = "loop"
    /\ ~table_skipped(df)
    /\ \E r \in {resolve(picked(df), last_col_map)} :
        /\ r.a # None /\ r.d # None
        /\ ~r.continued
        /\ \E it \in {iteration_with_roles(df, r, last_col_map, plan_period)} : Iterate(df, it)

\* lines 162-188 for a table read with last_col_map
ContinueTable(df) ==
    /\ pc = "loop"
    /\ ~table_skipped(df)
    /\ \E r \in {resolve(picked(df), last_col_map)} :
        /\ r.a # None /\ r.d # None
        /\ r.continued
        /\ \E it \in {iteration_with_roles(df, r, last_col_map, plan_period)} : Iterate(df, it)

\* line 190
ReturnRecords ==
    /\ pc = "loop"
    /\ seen >= 1
    /\ pc' = "returned"
    /\ UNCHANGED <<plan_period, seen, records, last_col_map, step, prev_step, amtVars, pickVars, appVars>>

NextTables ==
    \/ ReadPdfTables
    \/ ReadPdfNoTables
    \/ ReadPdfRaises
    \/ \E df \in TablePool : SkipTable(df)
    \/ \E df \in TablePool : DropTable(df)
    \/ \E df \in TablePool : ReadTable(df)
    \/ \E df \in TablePool : ContinueTable(df)
    \/ ReturnRecords

SpecTables == InitTables /\ [][NextTables]_vars

----------------------------------------------------------------------------
(* Specification of clean_amount over bounded cells *)

MaxAmountLen == 5

AmountAlphabet == {"(", ")", "-", ".", "0", "5", "$", " "}

RECURSIVE StringsUpTo(_, _)
StringsUpTo(cs, n) ==
    IF n = 0 THEN {<<>>}
    ELSE LET shorter == StringsUpTo(cs, n - 1)
         IN  shorter \cup {Append(s, c) : s \in {t \in shorter : Len(t) = n - 1}, c \in cs}

\* the cells of section 8 of the specification and cells with the tokens
\* the bounded alphabet leaves out
AmountExamples ==
    { <<"(", "0", ",", ".", "0", ")">>, <<"$", "(", "5", ")">>, <<"(", "1", ",", "0", "0", "0", ".", "0", "0", ")">>, <<"(", " ", "0", ".", "0", "0", " ", ")">>,
      <<"$", "1", ",", "2", "3", "4", ".", "0", "0">>,
      <<"(", "5", "0", "0", ")">>,
      <<"U", "S", "D", " ", "9", "9", ".", "5", "0">>,
      <<>>,
      <<"n", "/", "a">>,
      <<"5", "0", "0", ".", "0", "0">>,
      <<"u", "s", "d", "5", "0">>,
      <<"1", ",", "U", "S", "D", ",", "2">>,
      <<"1", "U", "S", "D", "2">>,
      <<"NBSP", "$", "7", "5", "NBSP">>,
      <<"(", "$", "1", ",", "0", "0", "0", ".", "0", "0", ")">>,
      <<"$", "(", "2", "5", ")">>,
      <<"T", "B", "D">>,
      <<"0", "0", "7", ".", "0">>,
      <<"1", "2", ",", "5">>,
      <<"-", "$", "4", "0">> }

AmountInputs == StringsUpTo(AmountAlphabet, MaxAmountLen) \cup AmountExamples

InitAmount ==
    /\ amt_x \in AmountInputs
    /\ amt_once = Unset
    /\ amt_twice = Unset
    /\ PickIdle
    /\ TablesIdle
    /\ AppIdle

CleanAmount ==
    /\ amt_once = Unset
    /\ amt_once' = clean_amount(amt_x)
    /\ UNCHANGED <<amt_x, amt_twice, pickVars, tableVars, appVars>>

CleanAmountAgain ==
    /\ amt_once # Unset
    /\ amt_twice = Unset
    /\ amt_twice' = clean_amount(amt_once)
    /\ UNCHANGED <<amt_x, amt_once, pickVars, tableVars, appVars>>

NextAmount == CleanAmount \/ CleanAmountAgain

SpecAmount == InitAmount /\ [][NextAmount]_vars

----------------------------------------------------------------------------
(* Specification of _pick_column_indices over bounded tables *)

\* the data rows of one table
MaxDataRows == 3

\* a cell that looks like currency and one that does not
PickCells == { <<"$", "1", ",", "0", "0", "0", ".", "0", "0">>, <<"$", "5", "0", "0">> }

PickRows == {<<x, y, z>> : x \in PickCells, y \in PickCells, z \in PickCells}

\* headers with the amount role unnamed, with it named, and with no role named
PickHeaders ==
    { HeaderCost3, Header3, <<<<"I", "t", "e", "m">>, <<"D", "e", "t", "a", "i", "l", "s">>, <<"C", "o", "s", "t">>>> }

PickTables == {<<h>> \o d : h \in PickHeaders, d \in StringsUpTo(PickRows, MaxDataRows)}

InitPick ==
    /\ pick_df \in PickTables
    /\ pick_out = <<>>
    /\ AmountIdle
    /\ TablesIdle
    /\ AppIdle

PickColumns ==
    /\ pick_out = <<>>
    /\ pick_out' = <<pick_column_indices(pick_df)>>
    /\ UNCHANGED <<pick_df, amtVars, tableVars, appVars>>

NextPick == PickColumns

SpecPick == InitPick /\ [][NextPick]_vars

----------------------------------------------------------------------------
(* Specification of the upload handler, lines 228-281 *)

\* the script runs of one session that write a temporary file
MaxRuns == 3

PagesEndToEnd == << <<"P", "O", " ", "N", "u", "m", "b", "e", "r", ":", " ", "P", "O", "-", "9", "0", "0", "1", "\n", "P", "e", "r", "i", "o", "d", ":", " ", "Q", "1", " ", "2", "0", "2", "5", "\n", "P", "a", "r", "t", "n", "e", "r", ":", " ", "A", "c", "m", "e", " ", "C", "o", "r", "p">> >>

AppPages ==
    { PagesEndToEnd,
      << <<"P", "O", " ", "N", "u", "m", "b", "e", "r", ":", " ", "1", "2", "3", "4", "5", "-", "6", "\n", "P", "l", "a", "n", " ", "P", "e", "r", "i", "o", "d", " ", "-", " ", "F", "Y", "2", "5", "\n", "R", "e", "s", "e", "l", "l", "e", "r", ":", " ", " ", "B", "e", "t", "a", " ", " ", " ", "L", "L", "C", " ">> >>,
      << <<"M", "D", "F", " ", "A", "g", "r", "e", "e", "m", "e", "n", "t">> >>,
      << <<"P", "a", "r", "t", "n", "e", "r", " ", "N", "a", "m", "e", ":", " ", "G", "a", "m", "m", "a", " ", "I", "n", "c">>, <<"P", "O", " ", "#", " ", "4", "2">>, <<"P", "e", "r", "i", "o", "d", ":", " ", "o", "n", " ", "p", "a", "g", "e", " ", "t", "h", "r", "e", "e">> >>,
      << >> }

TableEndToEnd == <<Header3, RowTraining3>>

AppEngines ==
    { [raises |-> TRUE, tables |-> <<>>] }
        \cup { [raises |-> FALSE, tables |-> ts] :
                 ts \in { <<>>, <<TableEndToEnd>>, <<TableEndToEnd, <<RowWebinar3, RowBlank3>>>>,
                          <<<<HeaderBroken3, RowTraining3>>, <<Header2, RowTraining2>>>> } }

\* a document: the text of its pages, what the table engine does with it,
\* and whether it can be opened at all
AppDocs == [pages : AppPages, engine : AppEngines, openable : BOOLEAN]

DocEndToEnd ==
    [pages |-> PagesEndToEnd, engine |-> [raises |-> FALSE, tables |-> <<TableEndToEnd>>],
     openable |-> TRUE]

InitApp ==
    /\ app_pc = "no_file"
    /\ app_doc = <<>>
    /\ tmp_files = {}
    /\ tmp_path = 0
    /\ runs = 0
    /\ result = <<>>
    /\ df_rows = <<>>
    /\ AmountIdle
    /\ PickIdle
    /\ TablesIdle

\* lines 231-233: NamedTemporaryFile(delete=False) leaves the file in place
\* when the with block closes it; no line of the source removes it
WriteTemp ==
    /\ runs < MaxRuns
    /\ runs' = runs + 1
    /\ tmp_path' = runs + 1
    /\ tmp_files' = tmp_files \cup {runs + 1}

\* the user uploads a document; the script runs with the button not pressed
Upload(doc) ==
    /\ app_pc = "no_file"
    /\ app_doc' = <<doc>>
    /\ WriteTemp
    /\ app_pc' = "uploaded"
    /\ result' = <<>>
    /\ df_rows' = <<>>
    /\ UNCHANGED <<amtVars, pickVars, tableVars>>

\* another widget (the slider) reruns the script, the button not pressed
Rerun ==
    /\ app_pc \in {"uploaded", "done", "failed"}
    /\ WriteTemp
    /\ app_pc' = "uploaded"
    /\ result' = <<>>
    /\ df_rows' = <<>>
    /\ UNCHANGED <<app_doc, amtVars, pickVars, tableVars>>

\* lines 235-245: Process PDF is pressed and extract returns
ProcessPdf ==
    /\ app_pc \in {"uploaded", "done", "failed"}
    /\ app_doc[1].openable
    /\ WriteTemp
    /\ \E res \in {extract(app_doc[1])} :
        /\ result' = <<res>>
        /\ df_rows' = output_rows(res)
    /\ app_pc' = "done"
    /\ UNCHANGED <<app_doc, amtVars, pickVars, tableVars>>

\* lines 235-237: Process PDF is pressed and pdfplumber.open raises in
\* extract_headers; nothing catches it and the script run ends there
ProcessPdfFails ==
    /\ app_pc \in {"uploaded", "done", "failed"}
    /\ ~app_doc[1].openable
    /\ WriteTemp
    /\ app_pc' = "failed"
    /\ result' = <<>>
    /\ df_rows' = <<>>
    /\ UNCHANGED <<app_doc, amtVars, pickVars, tableVars>>

\* the user clears the uploader: the script takes the else branch of line 280
RemoveFile ==
    /\ app_pc \in {"uploaded", "done", "failed"}
    /\ app_pc' = "no_file"
    /\ app_doc' = <<>>
    /\ result' = <<>>
    /\ df_rows' = <<>>
    /\ UNCHANGED <<tmp_files, tmp_path, runs, amtVars, pickVars, tableVars>>

NextApp ==
    \/ \E doc \in AppDocs : Upload(doc)
    \/ Rerun
    \/ ProcessPdf
    \/ ProcessPdfFails
    \/ RemoveFile

SpecApp == InitApp /\ [][NextApp]_vars

----------------------------------------------------------------------------
(* Properties of clean_amount *)

has_digit(s) == \E i \in 1..Len(s) : s[i] \in Digits

\* s is, whole, one match of -?\d+(?:\.\d+)?
is_number(s) ==
    /\ s # <<>>
    /\ LET first == IF s[1] = "-" THEN 2 ELSE 1
           int_end == run_end(s, Digits, first)
       IN  /\ int_end >= first
           /\ \/ int_end = Len(s)
              \/ /\ int_end + 2 <= Len(s)
                 /\ s[int_end + 1] = "."
                 /\ run_end(s, Digits, int_end + 2) = Len(s)

first_digit(s) == s[CHOOSE i \in 1..Len(s) : s[i] \in Digits /\ \A k \in 1..(i - 1) : s[k] \notin Digits]

\* the cell without "$" and ","
without_signs(x) == strip(remove_chars(strip(x), {"$", ","}))

\* the cell, without "$" and ",", opens with "(" and closes with ")"
cell_parenthesised(x) ==
    \E t \in {without_signs(x)} : startswith(t, <<"(">>) /\ endswith(t, <<")">>)

\* C6: clean_amount applied to its own output returns that output.
C6_Idempotent == amt_twice # Unset => amt_twice = amt_once

\* a cell the first pass changed (for one, by collapsing 5.0 to 5) went
\* through the second pass
C6_Witness ==
    /\ amt_twice # Unset
    /\ amt_once # <<>>
    /\ amt_once # amt_x
    /\ contains(amt_x, <<".", "0">>)

C7_SpecExamples ==
    /\ amt_x = <<"$", "1", ",", "2", "3", "4", ".", "0", "0">> => amt_once = <<"1", "2", "3", "4">>
    /\ amt_x = <<"(", "5", "0", "0", ")">> => amt_once = <<"-", "5", "0", "0">>
    /\ amt_x = <<"U", "S", "D", " ", "9", "9", ".", "5", "0">> => amt_once = <<"9", "9", ".", "5", "0">>
    /\ amt_x = <<>> => amt_once = <<>>
    /\ amt_x = <<"n", "/", "a">> => amt_once = <<>>
    /\ amt_x = <<"5", "0", "0", ".", "0", "0">> => amt_once = <<"5", "0", "0">>

\* what holds of the result whatever the parentheses
C7_Number ==
    /\ C7_SpecExamples
    \* no number in the cell: the empty string, never "0"
    /\ ~has_digit(amt_x) => amt_once = <<>>
    \* a number in the cell: one decimal number, free of "$", "," and USD,
    \* and never an integer-valued decimal
    /\ has_digit(amt_x) => is_number(amt_once) /\ ~integer_valued(amt_once)
    \* a cell that is one number already is returned as it is
    /\ is_number(strip(amt_x)) /\ ~integer_valued(strip(amt_x)) => amt_once = strip(amt_x)
    \* the first number, not a later one
    /\ has_digit(amt_x) /\ ~contains(amt_x, <<".">>) => first_digit(amt_once) = first_digit(amt_x)

\* C7 as stated: clean_amount returns the first decimal number of the cell
\* without USD, "$" and ","; every parenthesised value gets a leading minus;
\* an integer-valued decimal collapses to the integer; no number gives "".
C7_CleanAmount ==
    amt_once # Unset =>
        /\ C7_Number
        /\ cell_parenthesised(amt_x) /\ has_digit(amt_x) => amt_once[1] = "-"

\* C7 (amended): as stated, except that a parenthesised integer-valued
\* decimal zero such as (0.00) collapses to "0", which has no minus.
C7_CleanAmountAmended ==
    amt_once # Unset =>
        /\ C7_Number
        /\ cell_parenthesised(amt_x) /\ has_digit(amt_x) =>
              \/ amt_once[1] = "-"
              \/ amt_once = <<"0">> /\ contains(without_signs(amt_x), <<"0", ".", "0">>)

\* the parenthesised cell ($1,000.00) came out as -1000
C7_Witness ==
    /\ amt_x = <<"(", "$", "1", ",", "0", "0", "0", ".", "0", "0", ")">>
    /\ amt_once = <<"-", "1", "0", "0", "0">>

----------------------------------------------------------------------------
(* Properties of extract_table_records *)

\* the records the last iteration appended
new_records == SubSeq(records, step.base + 1, Len(records))

\* an iteration has run and its table reached _pick_column_indices
picked_step == step.branch \in {"dropped", "own", "continued"}

\* no cell of the table holds a synonym of the activity or of the
\* description role, and no row is taken for a header row
headerless(table) ==
    /\ table # <<>>
    /\ \A i \in 1..Len(table) :
        /\ ~is_header_row(table[i])
        /\ \A c \in 1..Len(table[i]) :
            \E cell \in {normalize_header(table[i][c])} :
                \A s \in COL_SYNONYMS.activity \cup COL_SYNONYMS.description :
                    ~contains(cell, s)

three_columns(table) == table # <<>> /\ \A i \in 1..Len(table) : Len(table[i]) = 3

\* both cells of the row are empty once trimmed, a column the row does not
\* have counting as empty
both_cells_empty(row, a, d) ==
    /\ (a = None \/ a >= Len(row) \/ strip(row[a + 1]) = <<>>)
    /\ (d = None \/ d >= Len(row) \/ strip(row[d + 1]) = <<>>)

Layout012 == [activity |-> 0, description |-> 1, amount |-> 2]

\* the rows (0-based) of the table, all of them, that are not blank under
\* columns a and d
RECURSIVE data_rows_from(_, _, _, _)
data_rows_from(table, i, a, d) ==
    IF i >= Len(table) THEN <<>>
    ELSE (IF both_cells_empty(table[i + 1], a, d) THEN <<>> ELSE <<i>>)
         \o data_rows_from(table, i + 1, a, d)

\* C2: when the table before resolved {activity: 0, description: 1, amount: 2}
\* from its own header row and this table is a headerless table of the same
\* three columns, the table is read as a continuation under that map, from
\* its row 0 on: every row that is not blank gives a record, built from
\* columns 0, 1 and 2
C2_Continuation ==
    ( /\ prev_step.branch = "own"
      /\ step.branch # "none"
      /\ step.before = <<Layout012>>
      /\ three_columns(step.df)
      /\ headerless(step.df) )
    => /\ step.branch = "continued"
       /\ step.roles.a = 0 /\ step.roles.d = 1 /\ step.roles.m = 2
       /\ step.roles.start = 0
       /\ step.rows = data_rows_from(step.df, 0, 0, 1)
       /\ new_records =
            [k \in 1..Len(step.rows) |->
                make_record(step.df[step.rows[k] + 1], 0, 1, 2, plan_period)]

\* a headerless table followed a table with the header and its row 0 gave
\* a record
C2_Witness ==
    /\ prev_step.branch = "own"
    /\ step.before = <<Layout012>>
    /\ three_columns(step.df)
    /\ headerless(step.df)
    /\ step.rows # <<>>
    /\ step.rows[1] = 0
    /\ Len(records) > step.base

\* _pick_column_indices leaves the table without an activity or without a
\* description column
lacks_role(table) ==
    \E col_map \in {picked(table).col_map} :
        col_map.activity = None \/ col_map.description = None

\* C5: a table without a resolvable activity or description column, met
\* while last_col_map is absent, adds no record and leaves last_col_map
\* absent; the table after it, when its header names both roles, is read
\* with its own map and from the row below its header on
C5_DroppedTable ==
    /\ ( /\ picked_step
         /\ step.before = <<>>
         /\ lacks_role(step.df) )
       => /\ step.branch = "dropped"
          /\ new_records = <<>>
          /\ last_col_map = <<>>
    /\ ( /\ prev_step.branch = "dropped"
         /\ picked_step
         /\ ~lacks_role(step.df) )
       => /\ step.branch = "own"
          /\ step.before = <<>>
          /\ \E col_map \in {picked(step.df).col_map} :
                /\ step.roles.a = col_map.activity
                /\ step.roles.d = col_map.description
                /\ step.roles.m = col_map.amount
          /\ \E h \in {header_row_idx(step.df)} :
                /\ step.roles.start = h + 1
                /\ \A k \in 1..Len(step.rows) : step.rows[k] > h
          /\ new_records =
                [k \in 1..Len(step.rows) |->
                    make_record(step.df[step.rows[k] + 1], step.roles.a, step.roles.d,
                                step.roles.m, plan_period)]

\* a table with data rows was dropped and the table after it, whose header
\* is not in row 0, gave records
C5_Witness ==
    /\ prev_step.branch = "dropped"
    /\ Len(prev_step.df) >= 2
    /\ step.branch = "own"
    /\ header_row_idx(step.df) = 1
    /\ Len(records) > step.base

\* C8: every record comes from a row of the table whose activity cell and
\* description cell, read with the roles in effect, are not both empty after
\* trimming
C8_BlankRowsExcluded ==
    /\ Len(new_records) = Len(step.rows)
    /\ \A k \in 1..Len(step.rows) :
        /\ step.rows[k] \in 0..(Len(step.df) - 1)
        /\ ~both_cells_empty(step.df[step.rows[k] + 1], step.roles.a, step.roles.d)

\* a table was read that has a row with a blank cell, a cell holding one
\* space and an amount, and other rows gave records
C8_Witness ==
    /\ step.branch \in {"own", "continued"}
    /\ \E i \in 1..Len(step.df) :
        /\ i - 1 >= step.roles.start
        /\ both_cells_empty(step.df[i], step.roles.a, step.roles.d)
        /\ \E c \in 1..Len(step.df[i]) : strip(step.df[i][c]) # step.df[i][c]
        /\ cell_at(step.df[i], step.roles.m) # <<>>
    /\ Len(records) > step.base

\* C10: last_col_map is absent or names both activity and description; a
\* table is dropped only when last_col_map was absent; a skipped table leaves
\* it as it was; once present it stays present, and a table without its own
\* activity or description column is then read as a continuation
C10_LastColMap ==
    /\ \/ last_col_map = <<>>
       \/ /\ Len(last_col_map) = 1
          /\ last_col_map[1].activity # None
          /\ last_col_map[1].description # None
    /\ step.branch = "dropped" => step.before = <<>>
    /\ step.branch = "skipped" => last_col_map = step.before
    /\ (step.branch # "none" /\ step.before # <<>>) => last_col_map # <<>>
    /\ (picked_step /\ step.before # <<>> /\ lacks_role(step.df))
       => step.branch = "continued"

\* a map without an amount column outlived a skipped table and the table
\* after that was read under it
C10_Witness ==
    /\ prev_step.branch = "skipped"
    /\ prev_step.before # <<>>
    /\ step.branch = "continued"
    /\ step.before = prev_step.before
    /\ last_col_map[1].amount = None

----------------------------------------------------------------------------
(* Properties of _pick_column_indices *)

\* the header row of the table names no amount column
no_amount_header(table) ==
    \E header \in {table[header_row_idx(table) + 1]} :
        \A c \in 1..Len(header) :
            \A s \in COL_SYNONYMS.amount : ~contains(normalize_header(header[c]), s)

\* for every column j (0-based) the pair of its count of currency-like
\* cells below the header row and j
currency_counts(table) ==
    \* the pairs are worked out once, here
    Once(header_row_idx(table), LAMBDA h :
        {<<Cardinality({r \in (h + 2)..Len(table) : currency_like(table[r][j + 1])}), j>> :
            j \in 0..(Len(table[1]) - 1)})

\* the columns with the highest count
top_columns(counts) == {c[2] : c \in {t \in counts : \A o \in counts : o[1] <= t[1]}}

Max(S) == CHOOSE x \in S : \A y \in S : y <= x

\* C9 as stated: the fallback gives the amount role to the lowest of the
\* columns with the highest count of currency-like cells, to none when
\* every count is 0
C9_TieToLowest ==
    (pick_out # <<>> /\ no_amount_header(pick_df))
    => \E counts \in {currency_counts(pick_df)} :
        pick_out[1].col_map.amount =
            IF \E c \in counts : c[1] > 0 THEN Min(top_columns(counts)) ELSE None

\* C9: the fallback gives the amount role to the highest of the columns
\* with the highest count of currency-like cells, to none when every count
\* is 0
C9_TieToHighest ==
    (pick_out # <<>> /\ no_amount_header(pick_df))
    => \E counts \in {currency_counts(pick_df)} :
        pick_out[1].col_map.amount =
            IF \E c \in counts : c[1] > 0 THEN Max(top_columns(counts)) ELSE None

\* two columns tie on a count above 0 under a header that names no amount
\* column, and the role went to the higher of them
C9_Witness ==
    /\ pick_out # <<>>
    /\ no_amount_header(pick_df)
    /\ \E counts \in {currency_counts(pick_df)} :
        /\ Cardinality(top_columns(counts)) = 2
        /\ \E c \in counts : c[1] > 0
        /\ pick_out[1].col_map.amount = Max(top_columns(counts))
        /\ pick_out[1].col_map.amount # Min(top_columns(counts))

----------------------------------------------------------------------------
(* Properties of extract and of the upload handler *)

RowEndToEnd ==
    ("PO Number" :> <<"P", "O", "-", "9", "0", "0", "1">>) @@ ("Partner" :> <<"A", "c", "m", "e", " ", "C", "o", "r", "p">>)
    @@ ("Description" :> <<"T", "r", "a", "i", "n", "i", "n", "g", " ", "-", " ", "R", "e", "g", "i", "o", "n", "a", "l", " ", "t", "r", "a", "i", "n", "i", "n", "g", " ", "-", " ", "Q", "1", " ", "2", "0", "2", "5">>)
    @@ ("Amount" :> <<"1", "0", "0", "0">>)

\* C1: the PO Number and Partner of every output row are the ones
\* extract_headers recovered, every Description ends with the recovered plan
\* period, and the document of the end-to-end example yields its one row
C1_HeadersReachOutput ==
    app_pc = "done"
    => \E headers \in {extract_headers(app_doc[1].pages)} :
        /\ \A k \in 1..Len(df_rows) :
            /\ df_rows[k]["PO Number"] = headers["PO Number"]
            /\ df_rows[k]["Partner"] = headers["Partner"]
            /\ endswith(df_rows[k]["Description"], <<" ", "-", " ">> \o headers["Plan Period"])
        /\ app_doc[1] = DocEndToEnd => df_rows = <<RowEndToEnd>>

\* C3: when a press of Process PDF has ended, with the result shown or with
\* the exception, the temporary file of that run no longer exists
C3_TempFileDeleted ==
    app_pc \in {"done", "failed"} => tmp_path \notin tmp_files

\* C4: when the table engine raises, extract returns no rows and the header
\* fields extract_headers recovered; extract fails only for a document that
\* cannot be opened
C4_EngineFailure ==
    /\ (app_pc = "done" /\ app_doc[1].engine.raises)
       => \E headers \in {extract_headers(app_doc[1].pages)} :
            /\ result[1].rows = <<>>
            /\ result[1].po = headers["PO Number"]
            /\ result[1].period = headers["Plan Period"]
            /\ result[1].partner = headers["Partner"]
    /\ app_pc = "failed" => ~app_doc[1].openable

====
